---- MODULE Spec2Model ----
(***************************************************************************)
(* Bill event envelope: the generated models LineItem and BillEvent with   *)
(* their to_dict / from_dict codec, the BillEventPublisher and the         *)
(* BillEventConsumer.                                                      *)
(*                                                                         *)
(* Python values are tagged records: the tag t tells None, str, int,       *)
(* datetime, dict, list, a model instance and a raised exception apart.    *)
(***************************************************************************)
EXTENDS Naturals, Sequences, FiniteSets, TLC

VARIABLES
  kind, orig, cur, hist,
  handlers, registered, payload, invoked, raised, logged, lastop,
  source, event_bus_name, config, published, put_events_calls, client_outcome,
  returned, publish_raised, publishes

codecVars == <<kind, orig, cur, hist>>
\* handlers is the consumer's list; registered is the history of on() calls;
\* lastop, payload, invoked, raised and logged describe the latest call: its
\* argument, the handler invocations it made, what it raised to its caller and
\* what it printed.
consumerVars == <<handlers, registered, payload, invoked, raised, logged, lastop>>
publisherVars == <<source, event_bus_name, config, published, put_events_calls,
                   client_outcome, returned, publish_raised, publishes>>
vars == <<codecVars, consumerVars, publisherVars>>

-----------------------------------------------------------------------------
(* Bounds of the model.                                                    *)

MaxItems == 2
MaxSteps == 3
MaxHandlers == 3
MaxPublishes == 2

-----------------------------------------------------------------------------
(* Python values.                                                          *)

None == [t |-> "None"]
Str(s) == [t |-> "str", v |-> s]
Int(i) == [t |-> "int", v |-> i]
DateTime(s) == [t |-> "datetime", v |-> s]
Dict(f) == [t |-> "dict", v |-> f]
List(s) == [t |-> "list", v |-> s]
Model(cls, d, fs) == [t |-> "model", cls |-> cls, d |-> d, fields_set |-> fs]
Raise(exc) == [t |-> "raise", exc |-> exc]
Invalid == [t |-> "invalid"]

IsNone(x) == x.t = "None"

\* dict.get(key): the value, or None when the key is absent.
Get(obj, key) == IF key \in DOMAIN obj.v THEN obj.v[key] ELSE None

SeqsUpTo(S, n) == UNION {[1..k -> S] : k \in 0..n}

-----------------------------------------------------------------------------
(* The models' field tables.                                               *)

LineItemFields ==
  {"line_id", "amount_in_cents", "paid_in_cents", "cost_code_id", "cost_code_number",
   "cost_classification", "cost_division", "cost_code_version", "source_id",
   "description"}

LineItemRequired ==
  {"line_id", "amount_in_cents", "cost_code_id", "cost_code_number", "cost_classification"}

LineItemOptional == LineItemFields \ LineItemRequired

LineItemProperties ==
  {"lineId", "amountInCents", "paidInCents", "costCodeId", "costCodeNumber",
   "costClassification", "costDivision", "costCodeVersion", "sourceId", "description"}

BillEventFields == {"bill", "project", "line_items", "approval", "event_metadata"}

BillEventProperties == {"bill", "project", "lineItems", "approval", "eventMetadata"}

\* Bill, Project, Approval and Metadata are opaque field bags to the envelope.
OpaqueFields(cls) == IF cls = "Metadata" THEN {"id", "timestamp"} ELSE {"id"}

Fields(cls) ==
  CASE cls = "LineItem" -> LineItemFields
    [] cls = "BillEvent" -> BillEventFields
    [] OTHER -> OpaqueFields(cls)

Alias(cls, f) ==
  CASE cls = "LineItem" /\ f = "line_id" -> "lineId"
    [] cls = "LineItem" /\ f = "amount_in_cents" -> "amountInCents"
    [] cls = "LineItem" /\ f = "paid_in_cents" -> "paidInCents"
    [] cls = "LineItem" /\ f = "cost_code_id" -> "costCodeId"
    [] cls = "LineItem" /\ f = "cost_code_number" -> "costCodeNumber"
    [] cls = "LineItem" /\ f = "cost_classification" -> "costClassification"
    [] cls = "LineItem" /\ f = "cost_division" -> "costDivision"
    [] cls = "LineItem" /\ f = "cost_code_version" -> "costCodeVersion"
    [] cls = "LineItem" /\ f = "source_id" -> "sourceId"
    [] cls = "BillEvent" /\ f = "line_items" -> "lineItems"
    [] cls = "BillEvent" /\ f = "event_metadata" -> "eventMetadata"
    [] OTHER -> f

FieldOf(cls, a) == CHOOSE f \in Fields(cls) : Alias(cls, f) = a

Aliases(cls) == {Alias(cls, f) : f \in Fields(cls)}

FieldType(cls, f) ==
  CASE cls = "LineItem" /\ f \in {"amount_in_cents"} ->
         [kind |-> "int", optional |-> FALSE, of |-> ""]
    [] cls = "LineItem" /\ f \in {"paid_in_cents", "cost_code_version"} ->
         [kind |-> "int", optional |-> TRUE, of |-> ""]
    [] cls = "LineItem" /\ f \in {"cost_division", "source_id", "description"} ->
         [kind |-> "str", optional |-> TRUE, of |-> ""]
    [] cls = "LineItem" ->
         [kind |-> "str", optional |-> FALSE, of |-> ""]
    [] cls = "BillEvent" /\ f = "bill" ->
         [kind |-> "model", optional |-> FALSE, of |-> "Bill"]
    [] cls = "BillEvent" /\ f = "project" ->
         [kind |-> "model", optional |-> FALSE, of |-> "Project"]
    [] cls = "BillEvent" /\ f = "line_items" ->
         [kind |-> "list", optional |-> FALSE, of |-> "LineItem"]
    [] cls = "BillEvent" /\ f = "approval" ->
         [kind |-> "model", optional |-> FALSE, of |-> "Approval"]
    [] cls = "BillEvent" /\ f = "event_metadata" ->
         [kind |-> "model", optional |-> FALSE, of |-> "Metadata"]
    [] f = "timestamp" ->
         [kind |-> "datetime", optional |-> FALSE, of |-> ""]
    [] OTHER ->
         [kind |-> "str", optional |-> FALSE, of |-> ""]

-----------------------------------------------------------------------------
(* The base model: validation, dump and equality.                          *)

IsoStrings == {"2024-01-01T00:00:00"}

RECURSIVE ModelValidate(_, _)
RECURSIVE Coerce(_, _)

\* One field's validation: the validated value, or Invalid.
Coerce(ty, x) ==
  IF IsNone(x) THEN (IF ty.optional THEN x ELSE Invalid)
  ELSE CASE ty.kind = "str" -> IF x.t = "str" THEN x ELSE Invalid
         [] ty.kind = "int" -> IF x.t = "int" THEN x ELSE Invalid
         [] ty.kind = "datetime" ->
              IF x.t = "datetime" THEN x
              ELSE IF x.t = "str" /\ x.v \in IsoStrings THEN DateTime(x.v)
              ELSE Invalid
         [] ty.kind = "model" ->
              IF x.t = "model"
              THEN (IF x.cls = ty.of THEN x ELSE Invalid)
              ELSE IF x.t = "dict"
              THEN LET r == ModelValidate(ty.of, x)
                   IN IF r.t = "raise" THEN Invalid ELSE r
              ELSE Invalid
         [] ty.kind = "list" ->
              IF x.t # "list" THEN Invalid
              ELSE LET item == [kind |-> "model", optional |-> FALSE, of |-> ty.of]
                       each == [i \in DOMAIN x.v |-> Coerce(item, x.v[i])]
                   IN IF \E i \in DOMAIN each : each[i].t = "invalid"
                      THEN Invalid ELSE List(each)

\* cls.model_validate(data) under populate_by_name, unknown keys ignored: the
\* instance, whose fields_set holds the fields that were given, or a ValidationError.
ModelValidate(cls, data) ==
  IF data.t = "model"
  THEN (IF data.cls = cls THEN data ELSE Raise("ValidationError"))
  ELSE IF data.t # "dict" THEN Raise("ValidationError")
  ELSE LET Given(f) == Alias(cls, f) \in DOMAIN data.v \/ f \in DOMAIN data.v
           Key(f) == IF Alias(cls, f) \in DOMAIN data.v THEN Alias(cls, f) ELSE f
           Val(f) == IF Given(f) THEN Coerce(FieldType(cls, f), data.v[Key(f)])
                     ELSE IF FieldType(cls, f).optional THEN None
                     ELSE Invalid
       IN IF \E f \in Fields(cls) : Val(f).t = "invalid"
          THEN Raise("ValidationError")
          ELSE Model(cls, [f \in Fields(cls) |-> Val(f)], {f \in Fields(cls) : Given(f)})

RECURSIVE model_dump(_, _)

\* x.model_dump(by_alias=True, exclude_none=exclude_none), nested models and
\* lists included.
model_dump(x, exclude_none) ==
  CASE x.t = "model" ->
         LET keep == {f \in Fields(x.cls) : ~(exclude_none /\ IsNone(x.d[f]))}
         IN Dict([a \in {Alias(x.cls, f) : f \in keep} |->
                    model_dump(x.d[FieldOf(x.cls, a)], exclude_none)])
    [] x.t = "list" -> List([i \in DOMAIN x.v |-> model_dump(x.v[i], exclude_none)])
    [] OTHER -> x

RECURSIVE StructEq(_, _)

\* Equality of two values as Python compares them: two models are equal when
\* they are of one class and their field values are (fields_set plays no part).
StructEq(a, b) ==
  IF a.t # b.t THEN FALSE
  ELSE CASE a.t = "model" ->
              /\ a.cls = b.cls
              /\ \A f \in Fields(a.cls) : StructEq(a.d[f], b.d[f])
         [] a.t = "list" ->
              /\ Len(a.v) = Len(b.v)
              /\ \A i \in DOMAIN a.v : StructEq(a.v[i], b.v[i])
         [] a.t = "dict" ->
              /\ DOMAIN a.v = DOMAIN b.v
              /\ \A k \in DOMAIN a.v : StructEq(a.v[k], b.v[k])
         [] a.t \in {"None", "invalid"} -> TRUE
         [] a.t = "raise" -> a.exc = b.exc
         [] OTHER -> a.v = b.v

-----------------------------------------------------------------------------
(* LineItem.                                                               *)

\* LineItem.to_dict without the model_fields_set test.
LineItem_to_dict_null_always(self) ==
  LET _dict == model_dump(self, TRUE)
  IN IF IsNone(self.d["cost_division"])
     THEN Dict(("costDivision" :> None) @@ _dict.v)
     ELSE _dict

LineItem_to_dict(self) ==
  LET _dict == model_dump(self, TRUE)
  IN IF IsNone(self.d["cost_division"]) /\ "cost_division" \in self.fields_set
     THEN Dict(("costDivision" :> None) @@ _dict.v)
     ELSE _dict

\* LineItem.from_dict reading lineId as obj.get("lineId", "").
LineItem_from_dict_default_id(obj) ==
  IF IsNone(obj) THEN None
  ELSE IF obj.t # "dict" THEN ModelValidate("LineItem", obj)
  ELSE ModelValidate("LineItem",
         Dict([a \in LineItemProperties |->
                 IF a = "lineId" /\ a \notin DOMAIN obj.v THEN Str("") ELSE Get(obj, a)]))

LineItem_from_dict(obj) ==
  IF IsNone(obj) THEN None
  ELSE IF obj.t # "dict" THEN ModelValidate("LineItem", obj)
  ELSE ModelValidate("LineItem", Dict([a \in LineItemProperties |-> Get(obj, a)]))

-----------------------------------------------------------------------------
(* Bill, Project, Approval, Metadata: the generated pattern of the other   *)
(* models, on opaque field bags.                                           *)

Opaque_to_dict(self) == model_dump(self, TRUE)

Opaque_from_dict(cls, obj) ==
  IF IsNone(obj) THEN None
  ELSE IF obj.t # "dict" THEN ModelValidate(cls, obj)
  ELSE ModelValidate(cls, Dict([a \in Aliases(cls) |-> Get(obj, a)]))

-----------------------------------------------------------------------------
(* BillEvent.                                                              *)

BillEvent_to_dict(self) ==
  LET _dict == model_dump(self, TRUE)
      line_items == self.d["line_items"].v
      _items == [i \in DOMAIN line_items |-> LineItem_to_dict(line_items[i])]
      over == [a \in BillEventProperties \ (IF line_items = <<>> THEN {"lineItems"} ELSE {}) |->
                 CASE a = "bill" -> Opaque_to_dict(self.d["bill"])
                   [] a = "project" -> Opaque_to_dict(self.d["project"])
                   [] a = "lineItems" -> List(_items)
                   [] a = "approval" -> Opaque_to_dict(self.d["approval"])
                   [] a = "eventMetadata" -> Opaque_to_dict(self.d["event_metadata"])]
  IN Dict(over @@ _dict.v)

\* The elements a Python for loop draws from obj["lineItems"].
Iterate(x) ==
  CASE x.t = "list" -> x.v
    [] x.t \in {"dict", "str"} -> <<Str("k")>>
    [] OTHER -> <<>>

\* BillEvent.from_dict handing the raw object to a validation that forbids
\* unknown keys.
BillEvent_from_dict_forbid(obj) ==
  IF IsNone(obj) THEN None
  ELSE IF obj.t # "dict" THEN ModelValidate("BillEvent", obj)
  ELSE IF ~(DOMAIN obj.v \subseteq BillEventProperties) THEN Raise("ValidationError")
  ELSE ModelValidate("BillEvent", obj)

BillEvent_from_dict(obj) ==
  IF IsNone(obj) THEN None
  ELSE IF obj.t # "dict" THEN ModelValidate("BillEvent", obj)
  ELSE LET sub(a, cls) == IF ~IsNone(Get(obj, a)) THEN Opaque_from_dict(cls, obj.v[a]) ELSE None
           raw == IF ~IsNone(Get(obj, "lineItems")) THEN Iterate(obj.v["lineItems"]) ELSE <<>>
           items == [i \in DOMAIN raw |-> LineItem_from_dict(raw[i])]
           parts == <<sub("bill", "Bill"), sub("project", "Project"),
                      IF IsNone(Get(obj, "lineItems")) THEN None
                      ELSE IF obj.v["lineItems"].t \in {"int"} THEN Raise("TypeError")
                      ELSE IF \E i \in DOMAIN items : items[i].t = "raise"
                      THEN Raise("ValidationError")
                      ELSE List(items),
                      sub("approval", "Approval"), sub("eventMetadata", "Metadata")>>
       IN IF \E i \in 1..5 : parts[i].t = "raise"
          THEN parts[CHOOSE i \in 1..5 : parts[i].t = "raise" /\ \A j \in 1..(i-1) : parts[j].t # "raise"]
          ELSE ModelValidate("BillEvent",
                 Dict([a \in BillEventProperties |->
                        CASE a = "bill" -> parts[1]
                          [] a = "project" -> parts[2]
                          [] a = "lineItems" -> parts[3]
                          [] a = "approval" -> parts[4]
                          [] a = "eventMetadata" -> parts[5]]))

-----------------------------------------------------------------------------
(* The inputs: model instances as their constructors build them, and wire  *)
(* objects as a JSON parser delivers them.                                 *)

SampleValue(f) ==
  CASE f = "line_id" -> Str("L1")
    [] f = "amount_in_cents" -> Int(1000)
    [] f = "paid_in_cents" -> Int(400)
    [] f = "cost_code_id" -> Str("cc-1")
    [] f = "cost_code_number" -> Str("01-100")
    [] f = "cost_classification" -> Str("Labor")
    [] f = "cost_division" -> Str("Div-1")
    [] f = "cost_code_version" -> Int(2)
    [] f = "source_id" -> Str("src-1")
    [] f = "description" -> Str("framing")

\* LineItem(**kwargs): the required fields, the optional fields of `given`
\* passed explicitly, those of `valued` with a value and the others with None.
MkLineItem(given, valued) ==
  Model("LineItem",
        [f \in LineItemFields |->
           IF f \in LineItemRequired \/ f \in valued THEN SampleValue(f) ELSE None],
        LineItemRequired \cup given)

LineItems ==
  {MkLineItem(p[1], p[2]) :
     p \in {q \in (SUBSET LineItemOptional) \X (SUBSET LineItemOptional) : q[2] \subseteq q[1]}}

\* The line items the events carry.
SampleItems ==
  {MkLineItem({}, {}), MkLineItem({"cost_division"}, {}),
   MkLineItem({"cost_division"}, {"cost_division"}),
   MkLineItem({"paid_in_cents", "description"}, {"paid_in_cents"})}

MkOpaque(cls) ==
  Model(cls,
        [f \in OpaqueFields(cls) |->
           IF f = "timestamp" THEN DateTime("2024-01-01T00:00:00") ELSE Str(cls)],
        OpaqueFields(cls))

MkBillEvent(items) ==
  Model("BillEvent",
        [f \in BillEventFields |->
           CASE f = "bill" -> MkOpaque("Bill")
             [] f = "project" -> MkOpaque("Project")
             [] f = "line_items" -> List(items)
             [] f = "approval" -> MkOpaque("Approval")
             [] f = "event_metadata" -> MkOpaque("Metadata")],
        BillEventFields)

BillEvents == {MkBillEvent(s) : s \in SeqsUpTo(SampleItems, MaxItems)}

\* The events that are published and delivered.
SentEvents ==
  {MkBillEvent(s) :
     s \in SeqsUpTo({MkLineItem({}, {}),
                     MkLineItem({"cost_division", "paid_in_cents"}, {"paid_in_cents"})},
                    MaxItems)}

Without(obj, key) == Dict([k \in DOMAIN obj.v \ {key} |-> obj.v[k]])
With(obj, key, val) == Dict((key :> val) @@ obj.v)

\* A wire object and its variants with one key of `keys` absent or null.
Defects(obj, keys) ==
  {obj} \cup {Without(obj, k) : k \in keys} \cup {With(obj, k, None) : k \in keys}

WireLineItems ==
  UNION {Defects(LineItem_to_dict(m), {Alias("LineItem", f) : f \in LineItemRequired}) :
           m \in LineItems}

WireBillEvents ==
  LET good == {BillEvent_to_dict(e) : e \in BillEvents}
      one == BillEvent_to_dict(MkBillEvent(<<>>))
  IN UNION {Defects(w, BillEventProperties) : w \in good}
       \cup {With(w, "unknownKey", Str("x")) : w \in good}
       \cup {With(one, "lineItems", List(<<i>>)) : i \in WireLineItems \cup {None}}

-----------------------------------------------------------------------------
(* The codec: a value and the conversions applied to it so far.            *)

ConsumerIdle ==
  /\ handlers = <<>> /\ registered = <<>> /\ payload = None /\ invoked = <<>>
  /\ raised = None /\ logged = None /\ lastop = "init"

PublisherIdle ==
  /\ source = "" /\ event_bus_name = "" /\ config = <<"", "">> /\ published = None
  /\ put_events_calls = <<>> /\ client_outcome = None /\ returned = None
  /\ publish_raised = None /\ publishes = 0

CodecIdle == kind = "" /\ orig = None /\ cur = None /\ hist = <<>>

CodecInit ==
  /\ \/ kind = "LineItem" /\ orig \in LineItems
     \/ kind = "LineItem" /\ orig \in WireLineItems \cup {None}
     \/ kind = "BillEvent" /\ orig \in BillEvents
     \/ kind = "BillEvent" /\ orig \in WireBillEvents \cup {None, Str("not-json")}
  /\ cur = orig
  /\ hist = <<>>
  /\ ConsumerIdle
  /\ PublisherIdle

Apply(name, result) ==
  /\ Len(hist) < MaxSteps
  /\ cur' = result
  /\ hist' = Append(hist, name)
  /\ UNCHANGED <<kind, orig, consumerVars, publisherVars>>

LineItemToDict ==
  /\ kind = "LineItem" /\ cur.t = "model"
  /\ Apply("to_dict", LineItem_to_dict(cur))

LineItemFromDict ==
  /\ kind = "LineItem" /\ cur.t \notin {"model", "raise"}
  /\ Apply("from_dict", LineItem_from_dict(cur))

BillEventToDict ==
  /\ kind = "BillEvent" /\ cur.t = "model"
  /\ Apply("to_dict", BillEvent_to_dict(cur))

BillEventFromDict ==
  /\ kind = "BillEvent" /\ cur.t \notin {"model", "raise"}
  /\ Apply("from_dict", BillEvent_from_dict(cur))

CodecNext == LineItemToDict \/ LineItemFromDict \/ BillEventToDict \/ BillEventFromDict

SpecCodec == CodecInit /\ [][CodecNext]_vars

-----------------------------------------------------------------------------
(* JSON text.                                                              *)

RECURSIVE DateTimeEncoder(_)

\* What json.dumps(x, cls=DateTimeEncoder) writes for x: dates and datetimes
\* as their isoformat() string, None as null.
DateTimeEncoder(x) ==
  CASE x.t = "datetime" -> Str(x.v)
    [] x.t = "dict" -> Dict([k \in DOMAIN x.v |-> DateTimeEncoder(x.v[k])])
    [] x.t = "list" -> List([i \in DOMAIN x.v |-> DateTimeEncoder(x.v[i])])
    [] OTHER -> x

json_dumps(x) == [t |-> "text", v |-> DateTimeEncoder(x)]

json_loads(text) == text.v

-----------------------------------------------------------------------------
(* BillEventPublisher.                                                     *)

Sources == {"com.homebound", "com.test"}
BusNames == {"homebound-events", "test-bus"}

\* What client.put_events does: a response, or a failure it raises.
ClientOutcomes ==
  {Dict("FailedEntryCount" :> Int(0)), Dict("FailedEntryCount" :> Int(1)),
   Raise("ClientError")}

PublisherInit ==
  /\ source \in Sources
  /\ event_bus_name \in BusNames
  /\ config = <<source, event_bus_name>>
  /\ published = None
  /\ put_events_calls = <<>>
  /\ client_outcome = None
  /\ returned = None
  /\ publish_raised = None
  /\ publishes = 0
  /\ CodecIdle
  /\ ConsumerIdle

\* publish calling put_events a second time when the first call fails.
publish_retry(event, outcome) ==
  LET event_entry == [Source |-> source,
                      DetailType |-> "BillEvent",
                      Detail |-> json_dumps(model_dump(event, FALSE)),
                      EventBusName |-> event_bus_name]
      call == [Entries |-> <<event_entry>>]
  IN /\ publishes < MaxPublishes
     /\ publishes' = publishes + 1
     /\ published' = event
     /\ client_outcome' = outcome
     /\ put_events_calls' = IF outcome.t = "raise" THEN <<call, call>> ELSE <<call>>
     /\ returned' = IF outcome.t = "raise" THEN None ELSE outcome
     /\ publish_raised' = IF outcome.t = "raise" THEN outcome ELSE None
     /\ UNCHANGED <<source, event_bus_name, config, codecVars, consumerVars>>

publish(event, outcome) ==
  LET event_entry == [Source |-> source,
                      DetailType |-> "BillEvent",
                      Detail |-> json_dumps(model_dump(event, FALSE)),
                      EventBusName |-> event_bus_name]
  IN /\ publishes < MaxPublishes
     /\ publishes' = publishes + 1
     /\ published' = event
     /\ client_outcome' = outcome
     /\ put_events_calls' = <<[Entries |-> <<event_entry>>]>>
     /\ returned' = IF outcome.t = "raise" THEN None ELSE outcome
     /\ publish_raised' = IF outcome.t = "raise" THEN outcome ELSE None
     /\ UNCHANGED <<source, event_bus_name, config, codecVars, consumerVars>>

Publish == \E event \in SentEvents, outcome \in ClientOutcomes : publish(event, outcome)

PublisherNext == Publish

SpecPublisher == PublisherInit /\ [][PublisherNext]_vars

-----------------------------------------------------------------------------
(* BillEventConsumer.                                                      *)

\* The callables a caller registers: two that return and one that raises.
Handlers == {"h1", "h2", "hfail"}

HandlerRaises(h) == h = "hfail"

ConsumerInit ==
  /\ handlers = <<>>
  /\ registered = <<>>
  /\ payload = None
  /\ invoked = <<>>
  /\ raised = None
  /\ logged = None
  /\ lastop = "init"
  /\ CodecIdle
  /\ PublisherIdle

\* on() skipping a handler that is registered already.
on_dedup(handler) ==
  /\ Len(registered) < MaxHandlers
  /\ handlers' = IF \E i \in DOMAIN handlers : handlers[i] = handler
                 THEN handlers ELSE Append(handlers, handler)
  /\ registered' = Append(registered, handler)
  /\ lastop' = "on"
  /\ payload' = None /\ invoked' = <<>> /\ raised' = None /\ logged' = None
  /\ UNCHANGED <<codecVars, publisherVars>>

on(handler) ==
  /\ Len(registered) < MaxHandlers
  /\ handlers' = Append(handlers, handler)
  /\ registered' = Append(registered, handler)
  /\ lastop' = "on"
  /\ payload' = None /\ invoked' = <<>> /\ raised' = None /\ logged' = None
  /\ UNCHANGED <<codecVars, publisherVars>>

\* The handlers the loop reaches: all of them, or those up to the first that raises.
Reached(hs) ==
  IF \E i \in DOMAIN hs : HandlerRaises(hs[i])
  THEN CHOOSE i \in DOMAIN hs :
         HandlerRaises(hs[i]) /\ \A j \in 1..(i - 1) : ~HandlerRaises(hs[j])
  ELSE Len(hs)

\* The try block's first statement: the decoded event, or what it raises.
Decode(event_data) ==
  IF "detail" \in DOMAIN event_data.v
  THEN BillEvent_from_dict(event_data.v["detail"])
  ELSE Raise("KeyError")

handle_event(event_data) ==
  \E event \in {Decode(event_data)} :
    LET n == IF event.t = "raise" THEN 0 ELSE Reached(handlers)
        e == IF event.t = "raise" THEN event
             ELSE IF n > 0 /\ HandlerRaises(handlers[n]) THEN Raise("HandlerError")
             ELSE None
    IN /\ payload' = event_data
       /\ invoked' = [i \in 1..n |-> [handler |-> handlers[i], event |-> event]]
       /\ logged' = e
       /\ raised' = None
       /\ lastop' = "handle_event"
       /\ UNCHANGED <<handlers, registered, codecVars, publisherVars>>

start ==
  /\ lastop' = "start"
  /\ payload' = None /\ invoked' = <<>> /\ raised' = None /\ logged' = None
  /\ UNCHANGED <<handlers, registered, codecVars, publisherVars>>

\* The 'detail' values the bus delivers.
Details ==
  LET one == BillEvent_to_dict(MkBillEvent(<<>>))
      short == Without(LineItem_to_dict(MkLineItem({}, {})), "lineId")
  IN {None, Str("not-json")}
       \cup {BillEvent_to_dict(e) : e \in SentEvents}
       \cup Defects(one, BillEventProperties)
       \cup {With(one, "unknownKey", Str("x")), With(one, "lineItems", List(<<short>>))}

EventData == {Dict(<<>>)} \cup {Dict("detail" :> d) : d \in Details}

On == \E handler \in Handlers : on(handler)

HandleEvent == \E event_data \in EventData : handle_event(event_data)

ConsumerNext == On \/ HandleEvent \/ start

SpecConsumer == ConsumerInit /\ [][ConsumerNext]_vars

-----------------------------------------------------------------------------
(* Properties of the codec (SpecCodec).                                    *)

\* C7: LineItem.to_dict omits every optional field whose value is None, except
\* costDivision, which it emits as null when the caller set it to None and omits
\* when it was never set; a field that has a value is emitted with that value.
C7_OmitsUnsetOptionals ==
  (kind = "LineItem" /\ orig.t = "model" /\ Len(hist) >= 1 /\ hist[1] = "to_dict") =>
    LET out == IF Len(hist) = 1 THEN cur ELSE LineItem_to_dict(orig)
    IN /\ out.t = "dict"
       /\ \A f \in LineItemOptional \ {"cost_division"} :
            Alias("LineItem", f) \in DOMAIN out.v <=> ~IsNone(orig.d[f])
       /\ "costDivision" \in DOMAIN out.v <=>
            (~IsNone(orig.d["cost_division"]) \/ "cost_division" \in orig.fields_set)
       /\ \A f \in LineItemFields :
            Alias("LineItem", f) \in DOMAIN out.v => out.v[Alias("LineItem", f)] = orig.d[f]

C7_Witness ==
  /\ kind = "LineItem" /\ orig.t = "model" /\ hist = <<"to_dict">>
  /\ IsNone(orig.d["paid_in_cents"]) /\ "paid_in_cents" \in orig.fields_set
  /\ IsNone(orig.d["cost_division"]) /\ "cost_division" \in orig.fields_set
  /\ "paidInCents" \notin DOMAIN cur.v
  /\ "costDivision" \in DOMAIN cur.v /\ IsNone(cur.v["costDivision"])

\* C3: decoding the encoding of a valid BillEvent gives an equal BillEvent, each
\* line item's costDivision is set after the round trip exactly when it was set
\* before, and encoding again gives the first encoding.
C3_RoundTrip ==
  (kind = "BillEvent" /\ orig.t = "model" /\ Len(hist) >= 2
     /\ hist[1] = "to_dict" /\ hist[2] = "from_dict") =>
    LET back == IF Len(hist) = 2 THEN cur ELSE BillEvent_from_dict(BillEvent_to_dict(orig))
        was == orig.d["line_items"].v
    IN /\ back.t = "model"
       /\ StructEq(back, orig)
       /\ \A i \in DOMAIN was :
            "cost_division" \in back.d["line_items"].v[i].fields_set
              <=> "cost_division" \in was[i].fields_set
       /\ Len(hist) = 3 /\ hist[3] = "to_dict" => cur = BillEvent_to_dict(orig)

\* C8: BillEvent.from_dict raises a ValidationError, and builds no BillEvent,
\* when the object lacks bill, project, lineItems, approval or eventMetadata, or
\* a line item lacks lineId, amountInCents, costCodeId, costCodeNumber or
\* costClassification; with all five present and lineItems empty it builds one.
C8_RequiredFieldsRejected ==
  (kind = "BillEvent" /\ orig.t = "dict" /\ hist = <<"from_dict">>) =>
    LET lacksTop == \E a \in BillEventProperties : a \notin DOMAIN orig.v
        items == IF "lineItems" \in DOMAIN orig.v /\ orig.v["lineItems"].t = "list"
                 THEN orig.v["lineItems"].v ELSE <<>>
        lacksItem == \E i \in DOMAIN items :
                       /\ items[i].t = "dict"
                       /\ \E f \in LineItemRequired :
                            Alias("LineItem", f) \notin DOMAIN items[i].v
        emptyOk == /\ \A a \in BillEventProperties : a \in DOMAIN orig.v /\ ~IsNone(orig.v[a])
                   /\ orig.v["lineItems"].t = "list" /\ Len(orig.v["lineItems"].v) = 0
    IN /\ (lacksTop \/ lacksItem) => (cur.t = "raise" /\ cur.exc = "ValidationError")
       /\ emptyOk => (cur.t = "model" /\ cur.cls = "BillEvent"
                        /\ Len(cur.d["line_items"].v) = 0)

C8_Witness ==
  /\ kind = "BillEvent" /\ orig.t = "dict" /\ hist = <<"from_dict">>
  /\ BillEventProperties \ DOMAIN orig.v = {"approval"}
  /\ cur.t = "raise" /\ cur.exc = "ValidationError"

\* C9: decoding a payload that carries an unrecognized top-level key beside all
\* the required fields succeeds, with the result of decoding the payload
\* without that key.
C9_UnknownKeyIgnored ==
  (kind = "BillEvent" /\ orig.t = "dict" /\ hist = <<"from_dict">>
     /\ "unknownKey" \in DOMAIN orig.v) =>
    /\ cur.t = "model"
    /\ cur = BillEvent_from_dict(Without(orig, "unknownKey"))

C9_Witness ==
  /\ kind = "BillEvent" /\ orig.t = "dict" /\ hist = <<"from_dict">>
  /\ "unknownKey" \in DOMAIN orig.v
  /\ cur.t = "model" /\ Len(cur.d["line_items"].v) = MaxItems

-----------------------------------------------------------------------------
(* Properties of the publisher (SpecPublisher).                            *)

\* C6: every publish makes exactly one put_events call with exactly one entry,
\* whose Source and EventBusName are the configured ones and whose DetailType is
\* "BillEvent"; it returns the client's response unchanged, or lets the client's
\* failure through without a second call; the configuration never changes.
C6_OnePutEventsPerPublish ==
  /\ source = config[1]
  /\ event_bus_name = config[2]
  /\ publishes > 0 =>
       /\ Len(put_events_calls) = 1
       /\ Len(put_events_calls[1].Entries) = 1
       /\ put_events_calls[1].Entries[1].Source = config[1]
       /\ put_events_calls[1].Entries[1].EventBusName = config[2]
       /\ put_events_calls[1].Entries[1].DetailType = "BillEvent"
       /\ client_outcome.t # "raise" => (returned = client_outcome /\ IsNone(publish_raised))
       /\ client_outcome.t = "raise" => (publish_raised = client_outcome /\ IsNone(returned))

C6_Witness ==
  /\ publishes = 2
  /\ client_outcome.t = "raise"
  /\ publish_raised = client_outcome
  /\ Len(put_events_calls) = 1
  /\ config = <<"com.test", "test-bus">>

\* C4: the Detail that publish sends is the JSON text of BillEvent.to_dict of the
\* event, so no line item of it carries a null for an optional field that is
\* unset, and decoding it gives an event equal to the published one.
C4_DetailIsCodecEncoding ==
  publishes > 0 =>
    LET Detail == put_events_calls[1].Entries[1].Detail
        parsed == json_loads(Detail)
    IN /\ Detail = json_dumps(BillEvent_to_dict(published))
       /\ \A i \in DOMAIN parsed.v["lineItems"].v :
            \A f \in LineItemOptional :
              (IsNone(published.d["line_items"].v[i].d[f])
                 /\ f \notin published.d["line_items"].v[i].fields_set)
                => Alias("LineItem", f) \notin DOMAIN parsed.v["lineItems"].v[i].v
       /\ StructEq(BillEvent_from_dict(parsed), published)

-----------------------------------------------------------------------------
(* Properties of the consumer (SpecConsumer).                              *)

\* C1 as stated: after a handle_event whose detail decodes into a BillEvent,
\* every registration has been invoked, in registration order, once each, with
\* the decoded event.
C1_AllHandlersInvoked ==
  (lastop = "handle_event" /\ Decode(payload).t = "model") =>
    invoked = [i \in 1..Len(registered) |->
                 [handler |-> registered[i], event |-> Decode(payload)]]

\* C1 as amended: after a handle_event whose detail decodes into a BillEvent,
\* the registrations have been invoked in registration order, once each, with
\* the decoded event, up to and including the first handler that raises; the
\* registrations after a handler that raises are not invoked.
C1_HandlersInvokedUntilRaise ==
  (lastop = "handle_event" /\ Decode(payload).t = "model") =>
    LET k == Len(invoked)
    IN /\ k <= Len(registered)
       /\ \A i \in 1..k :
            invoked[i] = [handler |-> registered[i], event |-> Decode(payload)]
       /\ \A i \in 1..k : HandlerRaises(registered[i]) => i = k
       /\ k < Len(registered) => (k >= 1 /\ HandlerRaises(registered[k]))

C1_Witness ==
  /\ lastop = "handle_event" /\ Decode(payload).t = "model"
  /\ Len(registered) = 3 /\ registered[1] = registered[3] /\ registered[1] # registered[2]
  /\ Len(invoked) = 3
  /\ Len(invoked[1].event.d["line_items"].v) > 0

\* C2: after a handle_event whose detail cannot be decoded into a BillEvent (no
\* detail key, not an object, required fields missing), no handler has been
\* invoked, nothing is raised to the caller and the handler list is as registered.
C2_UndecodableDropped ==
  (lastop = "handle_event" /\ Decode(payload).t # "model") =>
    /\ invoked = <<>>
    /\ IsNone(raised)
    /\ handlers = registered

\* C5: when a handler raises on a decoded event, handle_event raises that error
\* to its caller.
C5_HandlerErrorPropagates ==
  (lastop = "handle_event" /\ Decode(payload).t = "model"
     /\ \E i \in DOMAIN invoked : HandlerRaises(invoked[i].handler)) =>
    (raised.t = "raise" /\ raised.exc = "HandlerError")

\* C10: every handler invocation receives a validated BillEvent instance, never
\* None, whatever the payload's detail is.
C10_HandlersGetBillEvent ==
  \A i \in DOMAIN invoked :
    invoked[i].event.t = "model" /\ invoked[i].event.cls = "BillEvent"

====
